---- MODULE Spec2Model ----
(***************************************************************************)
(* The canary executor of kusionstack rollout                              *)
(* (pkg/controllers/rolloutrun/executor/canary.go) and the step state      *)
(* machine engine that drives it.                                          *)
(*                                                                         *)
(* One reconcile tick is one call of canaryExecutor.Do.  A call is         *)
(* modelled step by step: pc is the position inside the call, and every    *)
(* call of an external collaborator (workload registry, canary strategy,   *)
(* traffic manager, webhook executor) is appended to calls, with its       *)
(* outcome chosen nondeterministically.  The engine (stepStateMachine) and *)
(* skipStep are not part of the sources at hand; they follow section 4.1   *)
(* of the specification.                                                   *)
(***************************************************************************)
EXTENDS Naturals, Sequences, FiniteSets, TLC

VARIABLES
    pc,          \* position inside the running call; "idle" between calls
    state,       \* ctx.NewStatus.CanaryStatus.State, the persisted step state
    machine,     \* stepStateMachine: from-state -> [next, do]
    nTargets,    \* len(rolloutRun.Spec.Canary.Targets)
    hasTraffic,  \* rolloutRun.Spec.Canary.Traffic != nil
    inCanary,    \* ctx.inCanary() as seen by the latest call of Do
    called,      \* at least one call has been started
    startState,  \* the step state at the start of the latest call
    i,           \* index of the target a handler's loop is at
    changed,     \* doCanary's local `changed`
    calls,       \* collaborator calls made by the latest call, in order
    invoked,     \* handlers invoked by the latest call, in order
    hrets,       \* what those handlers returned, in order
    res,         \* what the latest call returned
    pauses,      \* number of ctx.Pause() calls made by the latest call
    paused,      \* the rollout-run is paused: ctx.Pause() was called, no resume yet
    converged,   \* the external world has converged (liveness only)
    specPatch,   \* rolloutRun.Spec.Canary.PodTemplateMetadataPatch as doCanary read it
    patch,       \* doCanary's local `patch`
    couPatches   \* the patches passed to CreateOrUpdate by the latest call, in order

vars == <<pc, state, machine, nTargets, hasTraffic, inCanary, called,
          startState, i, changed, calls, invoked, hrets, res, pauses,
          paused, converged, specPatch, patch, couPatches>>

(***************************************************************************)
(* Bounds of the model.                                                    *)
(***************************************************************************)
MaxTargets == 2
MaxChain == 4

(***************************************************************************)
(* Step states, requeue intents, operation results, errors.                *)
(***************************************************************************)
StepPending == "Pending"
StepPreCanaryStepHook == "PreCanaryStepHook"
StepRunning == "Running"
StepPostCanaryStepHook == "PostCanaryStepHook"
StepResourceRecycling == "ResourceRecycling"
StepSucceeded == "Succeeded"
StepNone == ""

retryStop == "stop"
retryDefault == "default-delay"
retryImmediately == "immediate"
Retries == {retryStop, retryDefault, retryImmediately}

OperationResultNone == "unchanged"
OperationResults == {OperationResultNone, "created", "updated"}
OperationError == "error"

Nil == [code |-> "", reason |-> ""]
ReasonWorkloadInterfaceNotExist == "WorkloadInterfaceNotExist"
newDoCanaryError(reason) == [code |-> "DoCanaryError", reason |-> reason]
RawError == [code |-> "", reason |-> "raw"]

HRes(done, retry, err) == [done |-> done, retry |-> retry, err |-> err]
Result(done, requeue, err) == [done |-> done, requeue |-> requeue, err |-> err]
NoResult == Result(FALSE, retryStop, Nil)
Call(op, t, out) == [op |-> op, target |-> t, out |-> out]

\* every (done, requeueAfter, error) an external handler can return
HandlerOutcomes ==
    {HRes(d, r, e) : d \in BOOLEAN, r \in Retries, e \in {Nil, RawError}}

(***************************************************************************)
(* The step state machine engine.                                          *)
(***************************************************************************)
newStepStateMachine == [s \in {} |-> s]

add(m, from, to, do) ==
    IF from \in DOMAIN m THEN m
    ELSE m @@ (from :> [next |-> to, do |-> do])

IsTerminal(m, s) == s \in DOMAIN m /\ m[s].next = StepNone

\* doStep with the result of the handler read before its error
doStepDoneBeforeError(m, cur, h) ==
    LET to == m[cur].next IN
    IF h.done /\ to # StepNone
      THEN [state |-> to, loop |-> (h.retry = retryImmediately /\ ~IsTerminal(m, to)),
            res |-> IF h.retry = retryImmediately /\ ~IsTerminal(m, to) THEN NoResult
                    ELSE Result(IsTerminal(m, to), h.retry, h.err)]
    ELSE IF h.err # Nil
      THEN [state |-> cur, loop |-> FALSE, res |-> Result(FALSE, retryStop, h.err)]
    ELSE [state |-> cur, loop |-> FALSE, res |-> Result(h.done, h.retry, Nil)]

\* doStep without the loop: one handler for each call
doStepOnePerCall(m, cur, h) ==
    LET to == m[cur].next IN
    IF h.err # Nil
      THEN [state |-> cur, loop |-> FALSE, res |-> Result(FALSE, retryStop, h.err)]
    ELSE IF ~h.done
      THEN [state |-> cur, loop |-> FALSE, res |-> Result(FALSE, h.retry, Nil)]
    ELSE IF to = StepNone
      THEN [state |-> cur, loop |-> FALSE, res |-> Result(TRUE, h.retry, Nil)]
    ELSE [state |-> to, loop |-> FALSE,
          res |-> Result(IsTerminal(m, to), h.retry, Nil)]

\* doStep that advances whatever the handler says of being done
doStepIgnoresDone(m, cur, h) ==
    LET to == m[cur].next IN
    IF h.err # Nil
      THEN [state |-> cur, loop |-> FALSE, res |-> Result(FALSE, retryStop, h.err)]
    ELSE IF to = StepNone
      THEN [state |-> cur, loop |-> FALSE, res |-> Result(TRUE, h.retry, Nil)]
    ELSE IF h.retry = retryImmediately /\ ~IsTerminal(m, to)
      THEN [state |-> to, loop |-> TRUE, res |-> NoResult]
    ELSE [state |-> to, loop |-> FALSE,
          res |-> Result(IsTerminal(m, to), h.retry, Nil)]

\* one round of the engine's loop, after the handler of cur returned h
doStep(m, cur, h) ==
    LET to == m[cur].next IN
    IF h.err # Nil
      THEN [state |-> cur, loop |-> FALSE, res |-> Result(FALSE, retryStop, h.err)]
    ELSE IF ~h.done
      THEN [state |-> cur, loop |-> FALSE, res |-> Result(FALSE, h.retry, Nil)]
    ELSE IF to = StepNone
      THEN [state |-> cur, loop |-> FALSE, res |-> Result(TRUE, h.retry, Nil)]
    ELSE IF h.retry = retryImmediately /\ ~IsTerminal(m, to)
      THEN [state |-> to, loop |-> TRUE, res |-> NoResult]
    ELSE [state |-> to, loop |-> FALSE,
          res |-> Result(IsTerminal(m, to), h.retry, Nil)]

Return(h) ==
    /\ hrets' = Append(hrets, h)
    /\ pc' = "ret"
    /\ i' = 1
    /\ changed' = FALSE

specVars == <<machine, nTargets, hasTraffic>>
callVars == <<inCanary, called, startState>>
envVars == <<paused, converged>>
patchVars == <<specPatch, patch, couPatches>>

\* stepStateMachine.do: look up the handler of the current state and invoke it
EngineDispatch ==
    /\ pc = "do"
    /\ IF state \notin DOMAIN machine
         THEN /\ res' = Result(FALSE, retryStop, RawError)
              /\ pc' = "idle"
              /\ UNCHANGED invoked
         ELSE /\ invoked' = Append(invoked, [from |-> state, do |-> machine[state].do,
                                            at |-> Len(calls)])
              /\ pc' = machine[state].do
              /\ UNCHANGED res
    /\ UNCHANGED <<state, specVars, callVars, i, changed, calls, hrets, pauses, envVars, patchVars>>

\* stepStateMachine.do: act on what the handler returned
EngineResult ==
    /\ pc = "ret"
    /\ LET r == doStep(machine, state, hrets[Len(hrets)]) IN
        /\ state' = r.state
        /\ res' = r.res
        /\ pc' = IF r.loop THEN "do" ELSE "idle"
    /\ UNCHANGED <<specVars, callVars, i, changed, calls, invoked, hrets, pauses, envVars, patchVars>>

skipStep ==
    /\ pc = "skipStep"
    /\ Return(HRes(TRUE, retryImmediately, Nil))
    /\ UNCHANGED <<state, specVars, callVars, calls, invoked, res, pauses, envVars, patchVars>>

(***************************************************************************)
(* The canary executor.                                                    *)
(***************************************************************************)
\* newCanaryExecutor with Running wired past the post-step hook
newCanaryExecutorSkipsPostHook ==
    add(add(add(add(add(add(newStepStateMachine,
        StepPending, StepPreCanaryStepHook, "doInit"),
        StepPreCanaryStepHook, StepRunning, "doPreStepHook"),
        StepRunning, StepResourceRecycling, "doCanary"),
        StepPostCanaryStepHook, StepResourceRecycling, "doPostStepHook"),
        StepResourceRecycling, StepSucceeded, "doRecycle"),
        StepSucceeded, StepNone, "skipStep")

\* newCanaryExecutor with Succeeded wired back to Pending
newCanaryExecutorRestarts ==
    add(add(add(add(add(add(newStepStateMachine,
        StepPending, StepPreCanaryStepHook, "doInit"),
        StepPreCanaryStepHook, StepRunning, "doPreStepHook"),
        StepRunning, StepPostCanaryStepHook, "doCanary"),
        StepPostCanaryStepHook, StepResourceRecycling, "doPostStepHook"),
        StepResourceRecycling, StepSucceeded, "doRecycle"),
        StepSucceeded, StepPending, "skipStep")

newCanaryExecutor ==
    add(add(add(add(add(add(newStepStateMachine,
        StepPending, StepPreCanaryStepHook, "doInit"),
        StepPreCanaryStepHook, StepRunning, "doPreStepHook"),
        StepRunning, StepPostCanaryStepHook, "doCanary"),
        StepPostCanaryStepHook, StepResourceRecycling, "doPostStepHook"),
        StepResourceRecycling, StepSucceeded, "doRecycle"),
        StepSucceeded, StepNone, "skipStep")

(***************************************************************************)
(* The pod template metadata patch: nil, or a patch whose labels are nil   *)
(* or a map.                                                               *)
(***************************************************************************)
LabelCanary == "LabelCanary"
LabelPodRevision == "LabelPodRevision"
NoLabels == [k \in {} |-> ""]
NilPatch == [nil |-> TRUE, hasLabels |-> FALSE, labels |-> NoLabels]
EmptyPatch == [nil |-> FALSE, hasLabels |-> FALSE, labels |-> NoLabels]
SetLabel(m, k, v) == [x \in DOMAIN m \cup {k} |-> IF x = k THEN v ELSE m[x]]

\* the values a caller may have given to the label keys
CallerLabels == (LabelCanary :> "false") @@ (LabelPodRevision :> "stable") @@ ("app" :> "demo")

\* the patches a rollout-run may carry
PatchInputs ==
    {NilPatch, EmptyPatch} \cup
    {[nil |-> FALSE, hasLabels |-> TRUE, labels |-> [k \in K |-> CallerLabels[k]]] :
        K \in SUBSET DOMAIN CallerLabels}

\* appendBuiltinPodTemplateMetadataPatch that keeps the labels the caller set
appendBuiltinKeepsCallerLabels(p) ==
    LET labels == IF p.nil \/ ~p.hasLabels THEN NoLabels ELSE p.labels
        withCanary == IF LabelCanary \in DOMAIN labels THEN labels
                      ELSE SetLabel(labels, LabelCanary, "true")
        withRevision == IF LabelPodRevision \in DOMAIN withCanary THEN withCanary
                        ELSE SetLabel(withCanary, LabelPodRevision, "canary")
    IN [nil |-> FALSE, hasLabels |-> TRUE, labels |-> withRevision]

appendBuiltinPodTemplateMetadataPatch(p) ==
    LET p1 == IF p.nil THEN EmptyPatch ELSE p
        p2 == IF ~p1.hasLabels THEN [p1 EXCEPT !.hasLabels = TRUE, !.labels = NoLabels]
              ELSE p1
    IN [p2 EXCEPT !.labels =
            SetLabel(SetLabel(p2.labels, LabelCanary, "true"), LabelPodRevision, "canary")]

\* the entry guard of Do, inverted
notInCanaryInverted(ic) == ic

\* the entry guard of Do
notInCanary(ic) == ~ic

Do ==
    /\ pc = "idle"
    /\ \E ic \in BOOLEAN :
        /\ inCanary' = ic
        /\ IF notInCanary(ic)
             THEN /\ res' = Result(TRUE, retryImmediately, Nil)
                  /\ calls' = <<>>
                  /\ pc' = "idle"
             ELSE /\ res' = NoResult
                  /\ calls' = <<Call("With", 0, "")>>
                  /\ pc' = "do"
    /\ called' = TRUE
    /\ startState' = state
    /\ invoked' = <<>>
    /\ hrets' = <<>>
    /\ pauses' = 0
    /\ specPatch' = NilPatch
    /\ patch' = NilPatch
    /\ couPatches' = <<>>
    /\ UNCHANGED <<state, specVars, i, changed, envVars>>

\* one reconcile tick: the reconciler calls Do, unless the rollout-run is paused
Tick ==
    /\ ~paused
    /\ Do

\* the rollout-run is resumed, by hand or by policy
Resume ==
    /\ pc = "idle"
    /\ paused
    /\ paused' = FALSE
    /\ UNCHANGED <<pc, state, specVars, callVars, i, changed, calls, invoked,
                   hrets, res, pauses, converged, patchVars>>

Ok(b) == IF b THEN "ok" ELSE "error"
Bool(b) == IF b THEN "true" ELSE "false"

\* initTarget that asks for a retry when Initialize fails
initTargetRetriesInitialize(t, found, csOk, initOk) ==
    LET get == Call("Get", t, IF found THEN "found" ELSE "nil")
        cs == Call("CanaryStrategy", t, Ok(csOk))
        init == Call("Initialize", t, Ok(initOk))
    IN
    IF ~found
      THEN [calls |-> <<get>>, fail |-> TRUE,
            ret |-> HRes(FALSE, retryStop, newDoCanaryError(ReasonWorkloadInterfaceNotExist))]
    ELSE IF ~csOk
      THEN [calls |-> <<get, cs>>, fail |-> TRUE,
            ret |-> HRes(FALSE, retryStop, newDoCanaryError("InternalError"))]
    ELSE IF ~initOk
      THEN [calls |-> <<get, cs, init>>, fail |-> TRUE,
            ret |-> HRes(FALSE, retryDefault, newDoCanaryError("InitializeFailed"))]
    ELSE [calls |-> <<get, cs, init>>, fail |-> FALSE, ret |-> HRes(TRUE, retryDefault, Nil)]

\* initTarget that goes on to the next target when Initialize fails
initTargetIgnoresInitError(t, found, csOk, initOk) ==
    LET get == Call("Get", t, IF found THEN "found" ELSE "nil")
        cs == Call("CanaryStrategy", t, Ok(csOk))
        init == Call("Initialize", t, Ok(initOk))
    IN
    IF ~found
      THEN [calls |-> <<get>>, fail |-> TRUE,
            ret |-> HRes(FALSE, retryStop, newDoCanaryError(ReasonWorkloadInterfaceNotExist))]
    ELSE IF ~csOk
      THEN [calls |-> <<get, cs>>, fail |-> TRUE,
            ret |-> HRes(FALSE, retryStop, newDoCanaryError("InternalError"))]
    ELSE [calls |-> <<get, cs, init>>, fail |-> FALSE, ret |-> HRes(TRUE, retryDefault, Nil)]

\* initTarget that goes on to the next target when the workload is missing
initTargetSkipsMissing(t, found, csOk, initOk) ==
    LET get == Call("Get", t, IF found THEN "found" ELSE "nil")
        cs == Call("CanaryStrategy", t, Ok(csOk))
        init == Call("Initialize", t, Ok(initOk))
    IN
    IF ~found
      THEN [calls |-> <<get>>, fail |-> FALSE, ret |-> HRes(TRUE, retryDefault, Nil)]
    ELSE IF ~csOk
      THEN [calls |-> <<get, cs>>, fail |-> TRUE,
            ret |-> HRes(FALSE, retryStop, newDoCanaryError("InternalError"))]
    ELSE IF ~initOk
      THEN [calls |-> <<get, cs, init>>, fail |-> TRUE,
            ret |-> HRes(FALSE, retryStop, newDoCanaryError("InitializeFailed"))]
    ELSE [calls |-> <<get, cs, init>>, fail |-> FALSE, ret |-> HRes(TRUE, retryDefault, Nil)]

\* one iteration of doInit's loop over the targets
initTarget(t, found, csOk, initOk) ==
    LET get == Call("Get", t, IF found THEN "found" ELSE "nil")
        cs == Call("CanaryStrategy", t, Ok(csOk))
        init == Call("Initialize", t, Ok(initOk))
    IN
    IF ~found
      THEN [calls |-> <<get>>, fail |-> TRUE,
            ret |-> HRes(FALSE, retryStop, newDoCanaryError(ReasonWorkloadInterfaceNotExist))]
    ELSE IF ~csOk
      THEN [calls |-> <<get, cs>>, fail |-> TRUE,
            ret |-> HRes(FALSE, retryStop, newDoCanaryError("InternalError"))]
    ELSE IF ~initOk
      THEN [calls |-> <<get, cs, init>>, fail |-> TRUE,
            ret |-> HRes(FALSE, retryStop, newDoCanaryError("InitializeFailed"))]
    ELSE [calls |-> <<get, cs, init>>, fail |-> FALSE, ret |-> HRes(TRUE, retryDefault, Nil)]

\* doInit reporting not done after it initialized every target
doInitNotDone == HRes(FALSE, retryDefault, Nil)

\* doInit's last return with retryImmediately for retryDefault
doInitDoneImmediately == HRes(TRUE, retryImmediately, Nil)

\* what doInit returns once every target is initialized
doInitDone == HRes(TRUE, retryDefault, Nil)

doInit ==
    /\ pc = "doInit"
    /\ IF i > nTargets
         THEN /\ Return(doInitDone)
              /\ UNCHANGED calls
         ELSE \E found, csOk, initOk \in BOOLEAN :
                LET r == initTarget(i, found, csOk, initOk) IN
                /\ calls' = calls \o r.calls
                /\ IF r.fail
                     THEN Return(r.ret)
                     ELSE /\ i' = i + 1
                          /\ UNCHANGED <<pc, hrets, changed>>
    /\ UNCHANGED <<state, specVars, callVars, invoked, res, pauses, envVars, patchVars>>

doPreStepHook ==
    /\ pc = "doPreStepHook"
    /\ \E h \in HandlerOutcomes :
        /\ calls' = Append(calls, Call("Webhook.PreCanaryStepHook", 0, ""))
        /\ Return(h)
    /\ UNCHANGED <<state, specVars, callVars, invoked, res, pauses, envVars, patchVars>>

\* doPostStepHook pausing whatever the webhook says
postHookPausesAlways(h) == TRUE

\* doPostStepHook calls ctx.Pause() when the webhook reports done
postHookPauses(h) == h.done

doPostStepHook ==
    /\ pc = "doPostStepHook"
    /\ \E h \in HandlerOutcomes :
        /\ calls' = Append(calls, Call("Webhook.PostCanaryStepHook", 0, ""))
        /\ pauses' = IF postHookPauses(h) THEN pauses + 1 ELSE pauses
        /\ paused' = (paused \/ postHookPauses(h))
        /\ Return(h)
    /\ UNCHANGED <<state, specVars, callVars, invoked, res, converged, patchVars>>

\* the traffic manager call modifyTraffic's switch makes for op
TrafficCall(op, opResult) ==
    CASE op = "forkStable" -> <<Call("ForkStable", 0, opResult)>>
      [] op = "forkCanary" -> <<Call("ForkCanary", 0, opResult)>>
      [] op = "revertStable" -> <<Call("RevertStable", 0, opResult)>>
      [] op = "revertCanary" -> <<Call("RevertCanary", 0, opResult)>>
      [] OTHER -> <<>>

\* modifyTraffic that does not wait for the routes to be ready
modifyTrafficIgnoresReady(traffic, op, opResult, ready) ==
    LET check == <<Call("CheckReady", 0, Bool(ready))>> IN
    IF ~traffic
      THEN [calls |-> <<>>, done |-> TRUE, retry |-> retryImmediately]
    ELSE IF opResult = OperationError
      THEN [calls |-> TrafficCall(op, opResult), done |-> FALSE, retry |-> retryDefault]
    ELSE IF opResult # OperationResultNone
      THEN [calls |-> TrafficCall(op, opResult), done |-> FALSE, retry |-> retryDefault]
    ELSE [calls |-> TrafficCall(op, opResult) \o check,
          done |-> TRUE, retry |-> retryImmediately]

\* modifyTraffic that checks readiness although the operation changed the routes
modifyTrafficChecksReadyAfterChange(traffic, op, opResult, ready) ==
    LET check == <<Call("CheckReady", 0, Bool(ready))>> IN
    IF ~traffic
      THEN [calls |-> <<>>, done |-> TRUE, retry |-> retryImmediately]
    ELSE IF opResult = OperationError
      THEN [calls |-> TrafficCall(op, opResult), done |-> FALSE, retry |-> retryDefault]
    ELSE IF ~ready \/ opResult # OperationResultNone
      THEN [calls |-> TrafficCall(op, opResult) \o check,
            done |-> FALSE, retry |-> retryDefault]
    ELSE [calls |-> TrafficCall(op, opResult) \o check,
          done |-> TRUE, retry |-> retryImmediately]

\* modifyTraffic without the check of the operation's result
modifyTrafficIgnoresResult(traffic, op, opResult, ready) ==
    LET check == <<Call("CheckReady", 0, Bool(ready))>> IN
    IF ~traffic
      THEN [calls |-> <<>>, done |-> TRUE, retry |-> retryImmediately]
    ELSE IF opResult = OperationError
      THEN [calls |-> TrafficCall(op, opResult), done |-> FALSE, retry |-> retryDefault]
    ELSE IF ~ready
      THEN [calls |-> TrafficCall(op, opResult) \o check,
            done |-> FALSE, retry |-> retryDefault]
    ELSE [calls |-> TrafficCall(op, opResult) \o check,
          done |-> TRUE, retry |-> retryImmediately]

modifyTraffic(traffic, op, opResult, ready) ==
    LET check == <<Call("CheckReady", 0, Bool(ready))>> IN
    IF ~traffic
      THEN [calls |-> <<>>, done |-> TRUE, retry |-> retryImmediately]
    ELSE IF opResult = OperationError
      THEN [calls |-> TrafficCall(op, opResult), done |-> FALSE, retry |-> retryDefault]
    ELSE IF opResult # OperationResultNone
      THEN [calls |-> TrafficCall(op, opResult), done |-> FALSE, retry |-> retryDefault]
    ELSE IF ~ready
      THEN [calls |-> TrafficCall(op, opResult) \o check,
            done |-> FALSE, retry |-> retryDefault]
    ELSE [calls |-> TrafficCall(op, opResult) \o check,
          done |-> TRUE, retry |-> retryImmediately]

\* what a traffic manager operation or CreateOrUpdate can answer
Answers == OperationResults \cup {OperationError}

\* doCanary, 1: fork the stable traffic
doCanaryForkStable ==
    /\ pc = "doCanary"
    /\ \E o \in Answers, ready \in BOOLEAN :
        LET m == modifyTraffic(hasTraffic, "forkStable", o, ready) IN
        /\ calls' = calls \o m.calls
        /\ IF ~m.done
             THEN /\ Return(HRes(FALSE, m.retry, Nil))
                  /\ UNCHANGED <<specPatch, patch>>
             ELSE /\ pc' = "doCanaryTargets"
                  /\ \E p \in PatchInputs :
                        /\ specPatch' = p
                        /\ patch' = appendBuiltinPodTemplateMetadataPatch(p)
                  /\ UNCHANGED <<i, changed, hrets>>
    /\ UNCHANGED <<state, specVars, callVars, invoked, res, pauses, envVars, couPatches>>

\* canaryTarget that never sets `changed`
canaryTargetForgetsChange(t, found, csOk, result) ==
    LET get == Call("Get", t, IF found THEN "found" ELSE "nil")
        cs == Call("CanaryStrategy", t, Ok(csOk))
        cou == Call("CreateOrUpdate", t, result)
    IN
    IF ~found
      THEN [calls |-> <<get>>, fail |-> TRUE, changed |-> FALSE,
            ret |-> HRes(FALSE, retryStop, newDoCanaryError(ReasonWorkloadInterfaceNotExist))]
    ELSE IF ~csOk
      THEN [calls |-> <<get, cs>>, fail |-> TRUE, changed |-> FALSE,
            ret |-> HRes(FALSE, retryStop, newDoCanaryError("InternalError"))]
    ELSE IF result = OperationError
      THEN [calls |-> <<get, cs, cou>>, fail |-> TRUE, changed |-> FALSE,
            ret |-> HRes(FALSE, retryStop, newDoCanaryError("CreateOrUpdateFailed"))]
    ELSE [calls |-> <<get, cs, cou>>, fail |-> FALSE, changed |-> FALSE,
          ret |-> HRes(FALSE, retryDefault, Nil)]

\* one iteration of doCanary's loop over the targets
canaryTarget(t, found, csOk, result) ==
    LET get == Call("Get", t, IF found THEN "found" ELSE "nil")
        cs == Call("CanaryStrategy", t, Ok(csOk))
        cou == Call("CreateOrUpdate", t, result)
    IN
    IF ~found
      THEN [calls |-> <<get>>, fail |-> TRUE, changed |-> FALSE,
            ret |-> HRes(FALSE, retryStop, newDoCanaryError(ReasonWorkloadInterfaceNotExist))]
    ELSE IF ~csOk
      THEN [calls |-> <<get, cs>>, fail |-> TRUE, changed |-> FALSE,
            ret |-> HRes(FALSE, retryStop, newDoCanaryError("InternalError"))]
    ELSE IF result = OperationError
      THEN [calls |-> <<get, cs, cou>>, fail |-> TRUE, changed |-> FALSE,
            ret |-> HRes(FALSE, retryStop, newDoCanaryError("CreateOrUpdateFailed"))]
    ELSE [calls |-> <<get, cs, cou>>, fail |-> FALSE,
          changed |-> (result # OperationResultNone),
          ret |-> HRes(FALSE, retryDefault, Nil)]

\* doCanary, 2.a: create or update the canary resources of every target
doCanaryTargets ==
    /\ pc = "doCanaryTargets"
    /\ IF i > nTargets
         THEN /\ IF changed
                   THEN Return(HRes(FALSE, retryDefault, Nil))
                   ELSE /\ pc' = "doCanaryReady"
                        /\ i' = 1
                        /\ UNCHANGED <<changed, hrets>>
              /\ UNCHANGED <<calls, couPatches>>
         ELSE \E found, csOk \in BOOLEAN, o \in Answers :
                LET r == canaryTarget(i, found, csOk, o) IN
                /\ calls' = calls \o r.calls
                /\ couPatches' =
                     IF \E j \in DOMAIN r.calls : r.calls[j].op = "CreateOrUpdate"
                       THEN Append(couPatches, patch) ELSE couPatches
                /\ IF r.fail
                     THEN Return(r.ret)
                     ELSE /\ i' = i + 1
                          /\ changed' = (changed \/ r.changed)
                          /\ UNCHANGED <<pc, hrets>>
    /\ UNCHANGED <<state, specVars, callVars, invoked, res, pauses, envVars, specPatch, patch>>

\* doCanary, 2.b: wait for every canary workload to be ready
doCanaryReady ==
    /\ pc = "doCanaryReady"
    /\ IF i > nTargets
         THEN /\ pc' = "doCanaryForkCanary"
              /\ i' = 1
              /\ UNCHANGED <<calls, changed, hrets>>
         ELSE \E ready \in BOOLEAN :
                /\ calls' = calls \o <<Call("GetCanaryInfo", i, ""),
                                       Call("CheckPartitionReady", i, Bool(ready))>>
                /\ IF ~ready
                     THEN Return(HRes(FALSE, retryDefault, Nil))
                     ELSE /\ i' = i + 1
                          /\ UNCHANGED <<pc, changed, hrets>>
    /\ UNCHANGED <<state, specVars, callVars, invoked, res, pauses, envVars, patchVars>>

\* doCanary, 3: fork the canary traffic
doCanaryForkCanary ==
    /\ pc = "doCanaryForkCanary"
    /\ \E o \in Answers, ready \in BOOLEAN :
        LET m == modifyTraffic(hasTraffic, "forkCanary", o, ready) IN
        /\ calls' = calls \o m.calls
        /\ IF ~m.done
             THEN Return(HRes(FALSE, m.retry, Nil))
             ELSE Return(HRes(TRUE, retryImmediately, Nil))
    /\ UNCHANGED <<state, specVars, callVars, invoked, res, pauses, envVars, patchVars>>

\* doRecycle: revert the canary traffic first
doRecycleRevertCanary ==
    /\ pc = "doRecycle"
    /\ \E o \in Answers, ready \in BOOLEAN :
        LET m == modifyTraffic(hasTraffic, "revertCanary", o, ready) IN
        /\ calls' = calls \o m.calls
        /\ IF ~m.done
             THEN Return(HRes(FALSE, m.retry, Nil))
             ELSE /\ pc' = "doRecycleTargets"
                  /\ UNCHANGED <<i, changed, hrets>>
    /\ UNCHANGED <<state, specVars, callVars, invoked, res, pauses, envVars, patchVars>>

\* recycleTarget that goes on to the next target when Delete fails
recycleTargetIgnoresDeleteError(t, found, csOk, deleteOk) ==
    LET get == Call("Get", t, IF found THEN "found" ELSE "nil")
        cs == Call("CanaryStrategy", t, Ok(csOk))
        del == Call("Delete", t, Ok(deleteOk))
    IN
    IF ~found
      THEN [calls |-> <<get>>, fail |-> TRUE,
            ret |-> HRes(FALSE, retryStop, newDoCanaryError(ReasonWorkloadInterfaceNotExist))]
    ELSE IF ~csOk
      THEN [calls |-> <<get, cs>>, fail |-> TRUE,
            ret |-> HRes(FALSE, retryStop, newDoCanaryError("InternalError"))]
    ELSE [calls |-> <<get, cs, del>>, fail |-> FALSE, ret |-> HRes(TRUE, retryDefault, Nil)]

\* one iteration of doRecycle's loop over the targets
recycleTarget(t, found, csOk, deleteOk) ==
    LET get == Call("Get", t, IF found THEN "found" ELSE "nil")
        cs == Call("CanaryStrategy", t, Ok(csOk))
        del == Call("Delete", t, Ok(deleteOk))
    IN
    IF ~found
      THEN [calls |-> <<get>>, fail |-> TRUE,
            ret |-> HRes(FALSE, retryStop, newDoCanaryError(ReasonWorkloadInterfaceNotExist))]
    ELSE IF ~csOk
      THEN [calls |-> <<get, cs>>, fail |-> TRUE,
            ret |-> HRes(FALSE, retryStop, newDoCanaryError("InternalError"))]
    ELSE IF ~deleteOk
      THEN [calls |-> <<get, cs, del>>, fail |-> TRUE,
            ret |-> HRes(FALSE, retryStop, newDoCanaryError("DeleteFailed"))]
    ELSE [calls |-> <<get, cs, del>>, fail |-> FALSE, ret |-> HRes(TRUE, retryDefault, Nil)]

\* doRecycle: delete the canary resources of every target, then revert the
\* stable traffic
doRecycleTargets ==
    /\ pc = "doRecycleTargets"
    /\ IF i > nTargets
         THEN \E o \in Answers, ready \in BOOLEAN :
                LET m == modifyTraffic(hasTraffic, "revertStable", o, ready) IN
                /\ calls' = calls \o m.calls
                /\ IF ~m.done
                     THEN Return(HRes(FALSE, m.retry, Nil))
                     ELSE Return(HRes(TRUE, retryDefault, Nil))
         ELSE \E found, csOk, deleteOk \in BOOLEAN :
                LET r == recycleTarget(i, found, csOk, deleteOk) IN
                /\ calls' = calls \o r.calls
                /\ IF r.fail
                     THEN Return(r.ret)
                     ELSE /\ i' = i + 1
                          /\ UNCHANGED <<pc, hrets, changed>>
    /\ UNCHANGED <<state, specVars, callVars, invoked, res, pauses, envVars, patchVars>>

Init ==
    /\ pc = "idle"
    /\ state = StepPending
    /\ machine = newCanaryExecutor
    /\ nTargets \in 0..MaxTargets
    /\ hasTraffic \in BOOLEAN
    /\ inCanary = FALSE
    /\ called = FALSE
    /\ startState = StepPending
    /\ i = 1
    /\ changed = FALSE
    /\ calls = <<>>
    /\ invoked = <<>>
    /\ hrets = <<>>
    /\ res = NoResult
    /\ pauses = 0
    /\ paused = FALSE
    /\ converged = FALSE
    /\ specPatch = NilPatch
    /\ patch = NilPatch
    /\ couPatches = <<>>

Next ==
    \/ Tick
    \/ Resume
    \/ EngineDispatch
    \/ EngineResult
    \/ skipStep
    \/ doInit
    \/ doPreStepHook
    \/ doPostStepHook
    \/ doCanaryForkStable
    \/ doCanaryTargets
    \/ doCanaryReady
    \/ doCanaryForkCanary
    \/ doRecycleRevertCanary
    \/ doRecycleTargets

Spec == Init /\ [][Next]_vars

(***************************************************************************)
(* The engine on its own: any chain of states, handlers that may return    *)
(* anything.                                                               *)
(***************************************************************************)
ChainState(k) == "s" \o ToString(k)

RECURSIVE chainUpTo(_, _)
chainUpTo(k, len) ==
    IF k = 0 THEN newStepStateMachine
    ELSE add(chainUpTo(k - 1, len), ChainState(k),
             IF k = len THEN StepNone ELSE ChainState(k + 1),
             IF k = len THEN "skipStep" ELSE "stub")

\* s1 -> s2 -> ... -> s<len> -> "" with the no-op handler on the last state
Chain(len) == chainUpTo(len, len)

ChainLen == Cardinality(DOMAIN machine)

\* a call of stepStateMachine.do with any current state
EngineCall ==
    /\ pc = "idle"
    /\ \E k \in 1..(MaxChain + 1) : state' = ChainState(k)
    /\ startState' = state'
    /\ called' = TRUE
    /\ pc' = "do"
    /\ res' = NoResult
    /\ calls' = <<>>
    /\ invoked' = <<>>
    /\ hrets' = <<>>
    /\ pauses' = 0
    /\ UNCHANGED <<specVars, inCanary, i, changed, envVars, patchVars>>

\* a handler of which nothing is known
stub ==
    /\ pc = "stub"
    /\ \E h \in HandlerOutcomes : Return(h)
    /\ UNCHANGED <<state, specVars, callVars, calls, invoked, res, pauses, envVars, patchVars>>

InitEngine ==
    /\ pc = "idle"
    /\ machine \in {Chain(len) : len \in 1..MaxChain}
    /\ state = ChainState(1)
    /\ nTargets = 0
    /\ hasTraffic = FALSE
    /\ inCanary = TRUE
    /\ called = FALSE
    /\ startState = ChainState(1)
    /\ i = 1
    /\ changed = FALSE
    /\ calls = <<>>
    /\ invoked = <<>>
    /\ hrets = <<>>
    /\ res = NoResult
    /\ pauses = 0
    /\ paused = FALSE
    /\ converged = FALSE
    /\ specPatch = NilPatch
    /\ patch = NilPatch
    /\ couPatches = <<>>

NextEngine ==
    \/ EngineCall
    \/ EngineDispatch
    \/ EngineResult
    \/ stub
    \/ skipStep

SpecEngine == InitEngine /\ [][NextEngine]_vars

(***************************************************************************)
(* What a call did, read from its log.                                     *)
(***************************************************************************)
\* the calls of the k-th handler invoked by the latest call
SegEnd(k) == IF k < Len(invoked) THEN invoked[k + 1].at ELSE Len(calls)
Seg(k) == SubSeq(calls, invoked[k].at + 1, SegEnd(k))

\* the k-th handler invoked was `do` and has returned
HandlerAt(k, do) == k \in DOMAIN hrets /\ invoked[k].do = do

At(k, op) == {j \in DOMAIN Seg(k) : Seg(k)[j].op = op}
HasCall(k, op) == At(k, op) # {}
Targets(k, op) == {Seg(k)[j].target : j \in At(k, op)}
Outs(k, op) == {Seg(k)[j].out : j \in At(k, op)}

Fatal(reason) == HRes(FALSE, retryStop, newDoCanaryError(reason))
NotDone == HRes(FALSE, retryDefault, Nil)

\* the chain of step states, as the data model lists it
CanonicalNext(s) ==
    CASE s = StepPending -> StepPreCanaryStepHook
      [] s = StepPreCanaryStepHook -> StepRunning
      [] s = StepRunning -> StepPostCanaryStepHook
      [] s = StepPostCanaryStepHook -> StepResourceRecycling
      [] s = StepResourceRecycling -> StepSucceeded
      [] OTHER -> StepNone

(***************************************************************************)
(* C1: every change of the persisted step state goes from a state of the   *)
(* chain Pending -> PreCanaryStepHook -> Running -> PostCanaryStepHook ->  *)
(* ResourceRecycling -> Succeeded to its successor: never backward, never  *)
(* past a state.                                                           *)
(***************************************************************************)
C1_StateMovesToSuccessor ==
    [][state' # state =>
        (state # StepSucceeded /\ state' = CanonicalNext(state))]_vars

\* a run of calls has walked the whole chain
C1_Witness_WalkedTheChain ==
    pc = "idle" /\ state = StepSucceeded /\ startState = StepResourceRecycling

(***************************************************************************)
(* C2: once the step state is Succeeded it stays Succeeded, and a call     *)
(* started there runs the no-op handler only: no other handler and no      *)
(* collaborator beyond TrafficManager.With is called.                      *)
(***************************************************************************)
C2_SucceededIsFinal ==
    /\ [][state = StepSucceeded => state' = StepSucceeded]_vars
    /\ [](startState = StepSucceeded =>
            /\ \A k \in DOMAIN invoked : invoked[k].do = "skipStep"
            /\ \A j \in DOMAIN calls : calls[j].op = "With"
            /\ pauses = 0)

\* a call started at Succeeded has run the no-op handler and returned
C2_Witness_CallAtSucceeded ==
    /\ pc = "idle" /\ inCanary
    /\ startState = StepSucceeded /\ state = StepSucceeded
    /\ Len(hrets) = 1 /\ invoked[1].do = "skipStep" /\ res.done

(***************************************************************************)
(* C3: on every chain of transitions, a call of do at the first state in   *)
(* which every handler returns (true, immediate, nil) runs the handlers of *)
(* the states before the terminal one in chain order and leaves the state  *)
(* at the terminal state, in that one call.                                *)
(***************************************************************************)
AllDoneImmediately ==
    \A k \in DOMAIN hrets : hrets[k] = HRes(TRUE, retryImmediately, Nil)

ChainHandlers == IF ChainLen = 1 THEN 1 ELSE ChainLen - 1

C4_NotDoneStays ==
    (Len(hrets) >= 1 /\ hrets[1] = NotDone) =>
        /\ Len(invoked) = 1
        /\ invoked[1].from = startState
        /\ state = startState
        /\ pc = "idle" => res = Result(FALSE, retryDefault, Nil)

\* a call at a state in the middle of a chain was answered "not done"
C4_Witness_NotDoneMidChain ==
    /\ pc = "idle" /\ hrets = <<NotDone>>
    /\ startState = ChainState(2) /\ ChainLen >= 3 /\ state = ChainState(2)

(***************************************************************************)
(* C5: when a handler returns (true, default-delay, nil) the call moves    *)
(* the step state from that handler's state to its successor and returns   *)
(* with a default-delay requeue, invoking no further handler; a call in    *)
(* which doInit completes makes no webhook call.                           *)
(***************************************************************************)
C5_DoneWithDelayReturns ==
    /\ \A k \in DOMAIN hrets : hrets[k] = HRes(TRUE, retryDefault, Nil) =>
        /\ k = Len(invoked)
        /\ pc = "idle" =>
            /\ state = CanonicalNext(invoked[k].from)
            /\ res.requeue = retryDefault
            /\ res.err = Nil
    /\ \A k \in DOMAIN hrets : (invoked[k].do = "doInit" /\ hrets[k].done) =>
        /\ Len(invoked) = k
        /\ \A j \in DOMAIN calls : calls[j].op # "Webhook.PreCanaryStepHook"

\* doInit has completed for two targets and the call has returned
C5_Witness_InitCompleted ==
    /\ pc = "idle" /\ nTargets = 2
    /\ Len(hrets) = 1 /\ invoked[1].do = "doInit"
    /\ hrets[1] = HRes(TRUE, retryDefault, Nil)
    /\ state = StepPreCanaryStepHook

(***************************************************************************)
(* C6: when a handler returns an error the call stops there: no further    *)
(* handler is invoked, the step state stays at that handler's state, and   *)
(* the call returns the error with the requeue intent stop.                *)
(***************************************************************************)
C6_ErrorStopsTheCall ==
    \A k \in DOMAIN hrets : hrets[k].err # Nil =>
        /\ k = Len(invoked)
        /\ pc \in {"ret", "idle"}
        /\ state = invoked[k].from
        /\ pc = "idle" => res = Result(FALSE, retryStop, hrets[k].err)

\* a handler reached by chaining has failed and the call has returned
C6_Witness_ErrorAfterChaining ==
    /\ pc = "idle" /\ Len(hrets) = 2
    /\ invoked[2].do = "doCanary" /\ hrets[2].err # Nil

(***************************************************************************)
(* C7: a call of Do made while the rollout-run is not in canary returns    *)
(* (true, immediate, nil) whatever the step state, and does nothing else:  *)
(* no handler, no change of the step state, no pause, no collaborator      *)
(* call, TrafficManager.With included.                                     *)
(***************************************************************************)
C7_EntryGuardPassesThrough ==
    (called /\ ~inCanary) =>
        /\ pc = "idle"
        /\ res = Result(TRUE, retryImmediately, Nil)
        /\ state = startState
        /\ invoked = <<>>
        /\ hrets = <<>>
        /\ calls = <<>>
        /\ pauses = 0

\* the guard has answered a call made in the middle of the chain
C7_Witness_GuardMidChain ==
    called /\ ~inCanary /\ pc = "idle" /\ state = StepRunning

(***************************************************************************)
(* C8: doCanary with the stable traffic forked and ready.                  *)
(***************************************************************************)
StableForked(k) ==
    /\ hasTraffic
    /\ Len(Seg(k)) >= 2
    /\ Seg(k)[1] = Call("ForkStable", 0, OperationResultNone)
    /\ Seg(k)[2] = Call("CheckReady", 0, "true")

SomeChanged(k) == Outs(k, "CreateOrUpdate") \cap {"created", "updated"} # {}

NoTargetFailed(k) ==
    /\ "nil" \notin Outs(k, "Get")
    /\ "error" \notin Outs(k, "CanaryStrategy")
    /\ "error" \notin Outs(k, "CreateOrUpdate")

StillConverging(k) ==
    /\ hrets[k] = NotDone
    /\ Targets(k, "CreateOrUpdate") = 1..nTargets
    /\ ~HasCall(k, "GetCanaryInfo")
    /\ ~HasCall(k, "CheckPartitionReady")
    /\ ~HasCall(k, "ForkCanary")

AllNoneAndReady(k) ==
    /\ Targets(k, "CreateOrUpdate") = 1..nTargets
    /\ Outs(k, "CreateOrUpdate") \subseteq {OperationResultNone}
    /\ Targets(k, "CheckPartitionReady") = 1..nTargets
    /\ Outs(k, "CheckPartitionReady") \subseteq {"true"}

CanaryForked(k) ==
    /\ HasCall(k, "ForkCanary")
    /\ (/\ Seg(k)[Len(Seg(k)) - 1] = Call("ForkCanary", 0, OperationResultNone)
        /\ Seg(k)[Len(Seg(k))] = Call("CheckReady", 0, "true"))
       => hrets[k] = HRes(TRUE, retryImmediately, Nil)

\* C8 as stated: if any CreateOrUpdate of the invocation returns a result
\* other than none, doCanary returns (false, default-delay, nil) after a
\* CreateOrUpdate on every target and without a readiness check or
\* ForkCanary; if every CreateOrUpdate returns none and every target is
\* partition-ready, ForkCanary is called and, when it returns none with
\* CheckReady true, doCanary returns (true, immediate, nil).
C8_Original_AnyChangeMeansNotDone ==
    \A k \in DOMAIN hrets : (invoked[k].do = "doCanary" /\ StableForked(k)) =>
        /\ SomeChanged(k) => StillConverging(k)
        /\ AllNoneAndReady(k) => CanaryForked(k)

\* C8 amended: the first half holds of the invocations in which no target's
\* workload lookup, capability lookup or CreateOrUpdate fails.
C8_ChangeWithoutFailureMeansNotDone ==
    \A k \in DOMAIN hrets : (invoked[k].do = "doCanary" /\ StableForked(k)) =>
        /\ (SomeChanged(k) /\ NoTargetFailed(k)) => StillConverging(k)
        /\ AllNoneAndReady(k) => CanaryForked(k)

\* doCanary has returned after creating the canary resources of two targets
C8_Witness_BothCreated ==
    \E k \in DOMAIN hrets :
        /\ invoked[k].do = "doCanary" /\ StableForked(k) /\ nTargets = 2
        /\ Outs(k, "CreateOrUpdate") = {"created"}
        /\ Targets(k, "CreateOrUpdate") = {1, 2}

(***************************************************************************)
(* C9: doInit when the workload of a target is missing.                    *)
(***************************************************************************)
Missing(k) == {Seg(k)[j].target : j \in {j \in At(k, "Get") : Seg(k)[j].out = "nil"}}

\* C9 as stated: with two targets of which one is missing, doInit returns
\* (false, stop, DoCanaryError/WorkloadInterfaceNotExist) and Initialize is
\* called on no target, the one before the missing one included.
C9_Original_NoInitializeAtAll ==
    \A k \in DOMAIN hrets :
        (invoked[k].do = "doInit" /\ nTargets = 2 /\ Missing(k) # {}) =>
            /\ hrets[k] = Fatal(ReasonWorkloadInterfaceNotExist)
            /\ ~HasCall(k, "Initialize")

\* C9 amended: doInit returns that error and Initialize is called on no
\* target from the missing one on; the targets before it have been
\* initialized, once each.
C9_NoInitializeFromMissingOn ==
    \A k \in DOMAIN hrets : invoked[k].do = "doInit" =>
        \A t \in Missing(k) :
            /\ hrets[k] = Fatal(ReasonWorkloadInterfaceNotExist)
            /\ Targets(k, "Initialize") = 1..(t - 1)
            /\ Cardinality(At(k, "Initialize")) = t - 1
            /\ Outs(k, "Initialize") \subseteq {"ok"}

\* the second of two targets was missing, after the first was initialized
C9_Witness_SecondMissing ==
    \E k \in DOMAIN hrets :
        /\ invoked[k].do = "doInit" /\ nTargets = 2
        /\ Missing(k) = {2} /\ Targets(k, "Initialize") = {1}

(***************************************************************************)
(* C10: an invocation of doRecycle in which the canary traffic is not      *)
(* fully reverted (traffic is specified and RevertCanary returns an error  *)
(* or a result other than none, or CheckReady is false after it) returns   *)
(* (false, default-delay, nil) without any workload lookup, Delete or      *)
(* RevertStable.                                                           *)
(***************************************************************************)
CanaryNotReverted(k) ==
    /\ hasTraffic
    /\ Len(Seg(k)) >= 1
    /\ Seg(k)[1].op = "RevertCanary"
    /\ \/ Seg(k)[1].out # OperationResultNone
       \/ Len(Seg(k)) >= 2 /\ Seg(k)[2] = Call("CheckReady", 0, "false")

C10_NoDeleteBeforeTrafficReverted ==
    \A k \in DOMAIN hrets : (invoked[k].do = "doRecycle" /\ CanaryNotReverted(k)) =>
        /\ hrets[k] = NotDone
        /\ ~HasCall(k, "Get")
        /\ ~HasCall(k, "CanaryStrategy")
        /\ ~HasCall(k, "Delete")
        /\ ~HasCall(k, "RevertStable")

\* doRecycle has returned while RevertCanary was still changing the routes
C10_Witness_RevertStillConverging ==
    \E k \in DOMAIN hrets :
        /\ invoked[k].do = "doRecycle" /\ nTargets = 2 /\ hasTraffic
        /\ Seg(k) = <<Call("RevertCanary", 0, "updated")>>
        /\ pc = "idle"

(***************************************************************************)
(* The reconciler that keeps calling Do on a rollout-run that stays in the *)
(* canary phase, in a world without fatal outcomes that converges, and in  *)
(* which every pause is resumed.                                           *)
(***************************************************************************)
NewCalls == SubSeq(calls', Len(calls) + 1, Len(calls'))
NewReturns == SubSeq(hrets', Len(hrets) + 1, Len(hrets'))

\* a missing workload, or a failing capability lookup, Initialize,
\* CreateOrUpdate or Delete
FatalOutcome(c) ==
    \/ c.op = "Get" /\ c.out = "nil"
    \/ /\ c.op \in {"CanaryStrategy", "Initialize", "CreateOrUpdate", "Delete"}
       /\ c.out = "error"

\* what a collaborator answers once it has nothing left to do
SettledOutcome(c) == c.out \in {"", "found", "ok", "true", OperationResultNone}

\* what the collaborators answer in this step: nothing fatal, and what a
\* converged world answers once the world has converged
WorldOk ==
    /\ \A j \in DOMAIN NewCalls :
        /\ ~FatalOutcome(NewCalls[j])
        /\ converged => SettledOutcome(NewCalls[j])
    /\ \A j \in DOMAIN NewReturns :
        /\ NewReturns[j].err = Nil
        /\ (converged /\ pc \in {"doPreStepHook", "doPostStepHook"}) => NewReturns[j].done

\* the world converges
Converge ==
    /\ ~converged
    /\ converged' = TRUE
    /\ UNCHANGED <<pc, state, specVars, callVars, i, changed, calls, invoked,
                   hrets, res, pauses, paused, patchVars>>

\* a tick on a rollout-run in the canary phase whose last call did not end
\* with a terminal error
LiveTick ==
    /\ res.err = Nil
    /\ Tick
    /\ inCanary'

\* one step of the call in progress
LiveRun ==
    \/ EngineDispatch /\ WorldOk
    \/ EngineResult /\ WorldOk
    \/ skipStep /\ WorldOk
    \/ doInit /\ WorldOk
    \/ doPreStepHook /\ WorldOk
    \/ doPostStepHook /\ WorldOk
    \/ doCanaryForkStable /\ WorldOk
    \/ doCanaryTargets /\ WorldOk
    \/ doCanaryReady /\ WorldOk
    \/ doCanaryForkCanary /\ WorldOk
    \/ doRecycleRevertCanary /\ WorldOk
    \/ doRecycleTargets /\ WorldOk

LiveNext ==
    \/ LiveTick
    \/ LiveRun
    \/ Resume
    \/ Converge

SpecLive ==
    /\ Init
    /\ [][LiveNext]_vars
    /\ WF_vars(LiveTick)
    /\ WF_vars(LiveRun)
    /\ WF_vars(Resume)
    /\ WF_vars(Converge)

(***************************************************************************)
(* C11: in a call of Do the pause signal is set once for a post-step hook  *)
(* that reports done, and is then still set when the call returns; it is   *)
(* not set in a call in which the post-step hook does not report done or   *)
(* is not invoked.                                                         *)
(***************************************************************************)
PostHookDone ==
    {k \in DOMAIN hrets : invoked[k].do = "doPostStepHook" /\ hrets[k].done}

C11_PauseOncePerDonePostHook ==
    /\ pauses = Cardinality(PostHookDone)
    /\ pauses <= 1
    /\ (pauses = 1 /\ pc # "idle") => paused
    /\ paused => pauses = 1

\* a call has returned with the pause signal set by the post-step hook
C11_Witness_PausedAtReturn ==
    /\ pc = "idle" /\ paused /\ pauses = 1
    /\ PostHookDone # {} /\ startState = StepPostCanaryStepHook

(***************************************************************************)
(* C12: after the post-step hook has succeeded and paused the rollout-run, *)
(* no recycling (doRecycle, RevertCanary, Delete, RevertStable) happens    *)
(* until the rollout-run is resumed, not even in the call in which the     *)
(* hook succeeded, whatever requeue delay the webhook returned.            *)
(***************************************************************************)
RecyclingOps == {"RevertCanary", "Delete", "RevertStable"}

C12_Original_NoRecyclingWhilePaused ==
    paused =>
        /\ \A k \in DOMAIN invoked : invoked[k].do # "doRecycle"
        /\ \A j \in DOMAIN calls : calls[j].op \notin RecyclingOps

(***************************************************************************)
(* C13: every return of doInit, doCanary and doRecycle is done (true, nil, *)
(* default or immediate delay), not done (false, nil, default delay) or    *)
(* fatal (false, stop, an error with code DoCanaryError and a reason).     *)
(***************************************************************************)
OwnHandlers == {"doInit", "doCanary", "doRecycle"}

IsDone(h) == h.done /\ h.err = Nil /\ h.retry \in {retryDefault, retryImmediately}
IsNotDone(h) == ~h.done /\ h.err = Nil /\ h.retry = retryDefault
IsFatal(h) ==
    /\ ~h.done /\ h.retry = retryStop
    /\ h.err.code = "DoCanaryError" /\ h.err.reason # ""

C13_DoneNotDoneOrFatal ==
    \A k \in DOMAIN hrets : invoked[k].do \in OwnHandlers =>
        /\ IsDone(hrets[k]) \/ IsNotDone(hrets[k]) \/ IsFatal(hrets[k])
        /\ ~(hrets[k].done /\ hrets[k].err # Nil)
        /\ hrets[k].err # Nil <=> hrets[k].retry = retryStop

\* doCanary has failed on the CreateOrUpdate of the second target
C13_Witness_FatalCreateOrUpdate ==
    \E k \in DOMAIN hrets :
        /\ invoked[k].do = "doCanary" /\ nTargets = 2
        /\ hrets[k] = Fatal("CreateOrUpdateFailed")
        /\ Targets(k, "CreateOrUpdate") = {1, 2}

(***************************************************************************)
(* C14: whatever patch the caller supplies, every CreateOrUpdate of        *)
(* doCanary is passed a patch whose canary label is "true" and whose       *)
(* pod-revision label is "canary", with every other label of the caller    *)
(* unchanged.                                                              *)
(***************************************************************************)
Builtin == {LabelCanary, LabelPodRevision}

C14_BuiltinLabelsAlwaysSet ==
    /\ Len(couPatches) = Cardinality({j \in DOMAIN calls : calls[j].op = "CreateOrUpdate"})
    /\ \A j \in DOMAIN couPatches :
        LET q == couPatches[j] IN
        /\ ~q.nil /\ q.hasLabels
        /\ DOMAIN q.labels = DOMAIN specPatch.labels \cup Builtin
        /\ q.labels[LabelCanary] = "true"
        /\ q.labels[LabelPodRevision] = "canary"
        /\ \A key \in DOMAIN specPatch.labels \ Builtin :
                q.labels[key] = specPatch.labels[key]

\* CreateOrUpdate was passed a patch made from one that set all three labels
C14_Witness_CallerSetBuiltinLabels ==
    /\ Len(couPatches) = 2
    /\ DOMAIN specPatch.labels = DOMAIN CallerLabels
    /\ specPatch.labels[LabelCanary] = "false"

(***************************************************************************)
(* C16: the sub-steps of doCanary within one invocation.  CreateOrUpdate   *)
(* is called only after the stable fork of the same invocation was a no-op *)
(* with the routes ready (or without traffic management); readiness is     *)
(* checked only after CreateOrUpdate returned none for every target;       *)
(* ForkCanary is called only after every target was ready; doCanary        *)
(* returns done only after all four; every invocation starts at the        *)
(* stable fork.                                                            *)
(***************************************************************************)
StableForkDone(k) ==
    IF hasTraffic
      THEN /\ Len(Seg(k)) >= 2
           /\ Seg(k)[1] = Call("ForkStable", 0, OperationResultNone)
           /\ Seg(k)[2] = Call("CheckReady", 0, "true")
      ELSE ~HasCall(k, "ForkStable") /\ ~HasCall(k, "CheckReady")

AllNone(k) ==
    /\ Targets(k, "CreateOrUpdate") = 1..nTargets
    /\ Outs(k, "CreateOrUpdate") \subseteq {OperationResultNone}
    /\ NoTargetFailed(k)

AllReady(k) ==
    /\ Targets(k, "CheckPartitionReady") = 1..nTargets
    /\ Outs(k, "CheckPartitionReady") \subseteq {"true"}

CanaryForkDone(k) ==
    hasTraffic =>
        /\ Len(Seg(k)) >= 4
        /\ Seg(k)[Len(Seg(k)) - 1] = Call("ForkCanary", 0, OperationResultNone)
        /\ Seg(k)[Len(Seg(k))] = Call("CheckReady", 0, "true")

C16_CanarySubStepsInOrder ==
    \A k \in DOMAIN invoked : invoked[k].do = "doCanary" =>
        /\ (hasTraffic /\ Seg(k) # <<>>) => Seg(k)[1].op = "ForkStable"
        /\ HasCall(k, "CreateOrUpdate") => StableForkDone(k)
        /\ HasCall(k, "CheckPartitionReady") => (StableForkDone(k) /\ AllNone(k))
        /\ HasCall(k, "ForkCanary") => (StableForkDone(k) /\ AllNone(k) /\ AllReady(k))
        /\ (k \in DOMAIN hrets /\ hrets[k].done) =>
            /\ StableForkDone(k) /\ AllNone(k) /\ AllReady(k) /\ CanaryForkDone(k)
            /\ hrets[k] = HRes(TRUE, retryImmediately, Nil)

\* doCanary has gone through its four sub-steps for two targets
C16_Witness_AllFourSubSteps ==
    \E k \in DOMAIN hrets :
        /\ invoked[k].do = "doCanary" /\ hrets[k].done
        /\ nTargets = 2 /\ hasTraffic

(***************************************************************************)
(* C17: the phases of doRecycle.  RevertStable is called only after Delete *)
(* succeeded on every target in the same invocation; a missing workload, a *)
(* failed capability lookup or a failed Delete on a target stops doRecycle *)
(* with (false, stop, error), Delete having been called on the targets     *)
(* before it, on none after it, and RevertStable not at all; doRecycle     *)
(* returns (true, default-delay, nil) only after the canary revert, every  *)
(* Delete and the stable revert of the same invocation, so an invocation   *)
(* that finds the stable traffic still converging has again called         *)
(* RevertCanary and Delete on every target.                                *)
(***************************************************************************)
FailedTargets(k, op) ==
    {Seg(k)[j].target : j \in {j \in DOMAIN Seg(k) :
        \/ Seg(k)[j].op = "Get" /\ Seg(k)[j].out = "nil"
        \/ Seg(k)[j].op = "CanaryStrategy" /\ Seg(k)[j].out = "error"
        \/ Seg(k)[j].op = op /\ Seg(k)[j].out = "error"}}

OnceEach(k, op, targets) ==
    \A t \in targets : Cardinality({j \in At(k, op) : Seg(k)[j].target = t}) = 1

CanaryRevertDone(k) ==
    IF hasTraffic
      THEN /\ Len(Seg(k)) >= 2
           /\ Seg(k)[1] = Call("RevertCanary", 0, OperationResultNone)
           /\ Seg(k)[2] = Call("CheckReady", 0, "true")
      ELSE ~HasCall(k, "RevertCanary")

AllDeleted(k) ==
    /\ Targets(k, "Delete") = 1..nTargets
    /\ Outs(k, "Delete") \subseteq {"ok"}
    /\ OnceEach(k, "Delete", 1..nTargets)

C17_RecyclePhasesInOrder ==
    \A k \in DOMAIN hrets : invoked[k].do = "doRecycle" =>
        /\ HasCall(k, "RevertStable") => (CanaryRevertDone(k) /\ AllDeleted(k))
        /\ \A t \in FailedTargets(k, "Delete") :
            /\ IsFatal(hrets[k])
            /\ Targets(k, "Delete") \ {t} = 1..(t - 1)
            /\ OnceEach(k, "Delete", 1..(t - 1))
            /\ ~HasCall(k, "RevertStable")
        /\ hrets[k].done =>
            /\ hrets[k] = HRes(TRUE, retryDefault, Nil)
            /\ CanaryRevertDone(k) /\ AllDeleted(k)
            /\ hasTraffic =>
                /\ Seg(k)[Len(Seg(k)) - 1] = Call("RevertStable", 0, OperationResultNone)
                /\ Seg(k)[Len(Seg(k))] = Call("CheckReady", 0, "true")

\* doRecycle has deleted the canary resources of two targets and found the
\* stable traffic still converging
C17_Witness_StableStillConverging ==
    \E k \in DOMAIN hrets :
        /\ invoked[k].do = "doRecycle" /\ nTargets = 2 /\ hrets[k] = NotDone
        /\ "updated" \in Outs(k, "RevertStable")
        /\ HasCall(k, "RevertCanary") /\ Targets(k, "Delete") = {1, 2}

(***************************************************************************)
(* C18: the traffic operations never fail a handler.  When ForkStable,     *)
(* ForkCanary, RevertStable or RevertCanary returns an error or a result   *)
(* other than none, or CheckReady is false, doCanary or doRecycle returns  *)
(* (false, default-delay, nil) and does nothing more in that invocation;   *)
(* CheckReady is called only after an operation that returned none; and    *)
(* without traffic management none of them is called and the traffic       *)
(* sub-steps count as done.                                                *)
(***************************************************************************)
TrafficOps == {"ForkStable", "ForkCanary", "RevertStable", "RevertCanary"}

C18_TrafficIsTransient ==
    \A k \in DOMAIN invoked : invoked[k].do \in {"doCanary", "doRecycle"} =>
        /\ \A j \in DOMAIN Seg(k) :
            /\ (Seg(k)[j].op \in TrafficOps /\ Seg(k)[j].out # OperationResultNone) =>
                (j = Len(Seg(k)) /\ k \in DOMAIN hrets /\ hrets[k] = NotDone)
            /\ (Seg(k)[j].op \in TrafficOps /\ Seg(k)[j].out = OperationResultNone) =>
                (j < Len(Seg(k)) /\ Seg(k)[j + 1].op = "CheckReady")
            /\ Seg(k)[j].op = "CheckReady" =>
                /\ j > 1 /\ Seg(k)[j - 1].op \in TrafficOps
                /\ Seg(k)[j - 1].out = OperationResultNone
                /\ Seg(k)[j].out = "false" =>
                    (j = Len(Seg(k)) /\ k \in DOMAIN hrets /\ hrets[k] = NotDone)
        /\ ~hasTraffic =>
            /\ \A j \in DOMAIN Seg(k) : Seg(k)[j].op \notin TrafficOps \cup {"CheckReady"}
            /\ (k \in DOMAIN hrets /\ nTargets = 0) => IsDone(hrets[k])

\* doCanary has returned after ForkCanary failed, two targets being ready
C18_Witness_ForkCanaryError ==
    \E k \in DOMAIN hrets :
        /\ invoked[k].do = "doCanary" /\ nTargets = 2
        /\ Seg(k)[Len(Seg(k))] = Call("ForkCanary", 0, OperationError)
        /\ hrets[k] = NotDone

(***************************************************************************)
(* C19: doInit goes through the targets in order and stops at the first    *)
(* failure: it returns (false, stop, error), Initialize having been called *)
(* once on each target before the failing one and on none after it,        *)
(* nothing is rolled back and the step state stays Pending; it returns     *)
(* (true, default-delay, nil) only when Initialize succeeded on every      *)
(* target.                                                                 *)
(***************************************************************************)
C19_InitStopsAtFirstFailure ==
    \A k \in DOMAIN hrets : invoked[k].do = "doInit" =>
        /\ \A t \in FailedTargets(k, "Initialize") :
            /\ IsFatal(hrets[k])
            /\ Targets(k, "Initialize") \ {t} = 1..(t - 1)
            /\ OnceEach(k, "Initialize", 1..(t - 1))
            /\ \A j \in At(k, "Initialize") :
                    Seg(k)[j].target < t => Seg(k)[j].out = "ok"
            /\ ~HasCall(k, "Delete")
            /\ pc = "idle" => state = StepPending
        /\ hrets[k].done =>
            /\ hrets[k] = HRes(TRUE, retryDefault, Nil)
            /\ Targets(k, "Initialize") = 1..nTargets
            /\ OnceEach(k, "Initialize", 1..nTargets)
            /\ Outs(k, "Initialize") \subseteq {"ok"}
            /\ FailedTargets(k, "Initialize") = {}

\* Initialize failed on the second of two targets, the first being initialized
C19_Witness_SecondInitializeFails ==
    \E k \in DOMAIN hrets :
        /\ invoked[k].do = "doInit" /\ nTargets = 2 /\ pc = "idle"
        /\ hrets[k] = Fatal("InitializeFailed")
        /\ Outs(k, "Initialize") = {"ok", "error"}
        /\ state = StepPending

(***************************************************************************)
(* C20: when the reconciler keeps calling Do, the rollout-run stays in the *)
(* canary phase, no collaborator gives a fatal outcome, every pause is     *)
(* resumed and the world converges, the step state reaches Succeeded and   *)
(* stays there.                                                            *)
(***************************************************************************)
C20_EventuallySucceededForGood == <>[](state = StepSucceeded)

\* a rollout-run of two targets with traffic management has succeeded, and
\* Do has been called on it again
C20_Witness_SucceededAndCalledAgain ==
    /\ state = StepSucceeded /\ startState = StepSucceeded /\ pc = "idle"
    /\ nTargets = 2 /\ hasTraffic /\ converged /\ res.done

====
